---- MODULE Spec2Model ----
(***************************************************************************)
(* Vision sensor-correction unit of the local position estimator           *)
(* (src/modules/local_position_estimator/sensors/vision.cpp).              *)
(*                                                                         *)
(* Floats are modelled as exact rationals <<num, den>> (den > 0) plus one  *)
(* non-finite value NaN == <<0, 0>> that propagates through arithmetic and *)
(* makes every comparison false, as IEEE NaN does.  Timestamps are the     *)
(* code's unsigned microsecond counters, narrowed from 64 to 30 bits so    *)
(* that a wrapped difference stays inside the checker's integers.          *)
(***************************************************************************)
EXTENDS Integers, Sequences, FiniteSets, TLC

\* ------------------------------------------------------------------------
\* Program constants
\* ------------------------------------------------------------------------
REQ_VISION_INIT_COUNT == 1
VISION_TIMEOUT == 500000
EP_MAX_STD_DEV == 100

n_y_vision == 3
Y_vision_x == 1
Y_vision_y == 2
Y_vision_z == 3
n_x == 4
X_x == 1
X_y == 2
X_z == 3
X_vx == 4

SENSOR_VISION == "vision"
AllSensors == {"vision", "gps"}

OK == 0

\* ------------------------------------------------------------------------
\* Bounds of the model
\* ------------------------------------------------------------------------
\* length of one estimator cycle in microseconds
TimeStep == 250000
\* number of estimator cycles explored
MaxCycles == 6
UintMod == 2 ^ 30
StartTime == 4 * TimeStep

\* unsigned subtraction of two timestamps
USub(a, b) == (a - b) % UintMod

\* ------------------------------------------------------------------------
\* float arithmetic: exact rationals and NaN
\* ------------------------------------------------------------------------
NaN == <<0, 0>>
IsFinite(a) == a[2] # 0
Abs(n) == IF n < 0 THEN -n ELSE n

RECURSIVE GCD(_, _)
GCD(a, b) == IF b = 0 THEN a ELSE GCD(b, a % b)

Norm(n, d) ==
    IF d = 0 THEN NaN
    ELSE IF d = 1 THEN <<n, 1>>
    ELSE LET s == IF d < 0 THEN -1 ELSE 1
             g == GCD(Abs(n), Abs(d))
         IN  <<(s * n) \div g, (s * d) \div g>>

F(n) == <<n, 1>>
Zero == F(0)
One == F(1)

RAdd(a, b) ==
    IF ~IsFinite(a) \/ ~IsFinite(b) THEN NaN
    ELSE IF a[1] = 0 THEN b
    ELSE IF b[1] = 0 THEN a
    ELSE IF a[2] = b[2] THEN Norm(a[1] + b[1], a[2])
    ELSE LET g == GCD(a[2], b[2])
             l == (a[2] \div g) * b[2]
         IN  Norm(a[1] * (l \div a[2]) + b[1] * (l \div b[2]), l)
RNeg(a) == IF IsFinite(a) THEN <<-a[1], a[2]>> ELSE NaN
RSub(a, b) == RAdd(a, RNeg(b))
RMul(a, b) ==
    IF ~IsFinite(a) \/ ~IsFinite(b) THEN NaN
    ELSE IF a[1] = 0 \/ b[1] = 0 THEN Zero
    ELSE IF a[2] = 1 /\ b[2] = 1 THEN <<a[1] * b[1], 1>>
    ELSE LET g1 == GCD(Abs(a[1]), b[2])
             g2 == GCD(Abs(b[1]), a[2])
         IN  Norm((a[1] \div g1) * (b[1] \div g2), (a[2] \div g2) * (b[2] \div g1))
RDiv(a, b) ==
    IF ~IsFinite(a) \/ ~IsFinite(b) \/ b[1] = 0 THEN NaN
    ELSE RMul(a, Norm(b[2], b[1]))
\* comparisons: false as soon as one side is NaN
RGt(a, b) == IsFinite(a) /\ IsFinite(b) /\ a[1] * b[2] > b[1] * a[2]
RLe(a, b) == IsFinite(a) /\ IsFinite(b) /\ a[1] * b[2] <= b[1] * a[2]
RLt(a, b) == IsFinite(a) /\ IsFinite(b) /\ a[1] * b[2] < b[1] * a[2]

\* fmaxf: a NaN argument is ignored
fmaxf(a, b) ==
    IF ~IsFinite(a) THEN b
    ELSE IF ~IsFinite(b) THEN a
    ELSE IF RGt(a, b) THEN a ELSE b

\* sqrtf on the variances the model feeds it (integer perfect squares);
\* NaN for a NaN or negative argument
MaxRoot == 2 * EP_MAX_STD_DEV
sqrtf(a) ==
    IF ~IsFinite(a) \/ a[1] < 0 THEN NaN
    ELSE F(CHOOSE r \in 0..MaxRoot : r * r = a[1])

\* ------------------------------------------------------------------------
\* matrix library: a matrix is a sequence of rows, a vector a sequence
\* ------------------------------------------------------------------------
RECURSIVE RSum(_, _)
RSum(f, n) == IF n = 0 THEN Zero ELSE RAdd(RSum(f, n - 1), f[n])

\* the sequence f[1], ..., f[n], each element computed once
RECURSIVE MkSeq(_, _)
MkSeq(f, n) == IF n = 0 THEN <<>> ELSE Append(MkSeq(f, n - 1), f[n])
MkMat(f, n, m) == MkSeq([i \in 1..n |-> MkSeq(f[i], m)], n)

Dot(u, v) == RSum([k \in 1..Len(u) |-> RMul(u[k], v[k])], Len(u))
MatVec(A, v) == MkSeq([i \in 1..Len(A) |-> Dot(A[i], v)], Len(A))
Transpose(A) ==
    MkMat([j \in 1..Len(A[1]) |-> [i \in 1..Len(A) |-> A[i][j]]], Len(A[1]), Len(A))
MatMul(A, B) ==
    MkMat([i \in 1..Len(A) |-> [j \in 1..Len(B[1]) |->
             RSum([k \in 1..Len(B) |-> RMul(A[i][k], B[k][j])], Len(B))]],
          Len(A), Len(B[1]))
MatAdd(A, B) ==
    MkMat([i \in 1..Len(A) |-> [j \in 1..Len(A[1]) |-> RAdd(A[i][j], B[i][j])]],
          Len(A), Len(A[1]))
MatSub(A, B) ==
    MkMat([i \in 1..Len(A) |-> [j \in 1..Len(A[1]) |-> RSub(A[i][j], B[i][j])]],
          Len(A), Len(A[1]))
VecAdd(u, v) == MkSeq([i \in 1..Len(u) |-> RAdd(u[i], v[i])], Len(u))
VecSub(u, v) == MkSeq([i \in 1..Len(u) |-> RSub(u[i], v[i])], Len(u))
Identity(n) == MkMat([i \in 1..n |-> [j \in 1..n |-> IF i = j THEN One ELSE Zero]], n, n)

\* inv<float, n>: Gauss-Jordan elimination of the augmented matrix [S | I],
\* pivots taken on the diagonal
Augment(S) ==
    MkMat([i \in 1..Len(S) |-> [j \in 1..2 * Len(S) |->
             IF j <= Len(S) THEN S[i][j]
             ELSE IF j - Len(S) = i THEN One ELSE Zero]],
          Len(S), 2 * Len(S))
GaussJordanStep(M, k) ==
    MkMat([i \in 1..Len(M) |-> [j \in 1..Len(M[1]) |->
             IF i = k THEN RDiv(M[k][j], M[k][k])
             ELSE RSub(M[i][j], RMul(M[i][k], RDiv(M[k][j], M[k][k])))]],
          Len(M), Len(M[1]))
RECURSIVE GaussJordan(_, _)
GaussJordan(M, k) ==
    IF k > Len(M) THEN M ELSE GaussJordan(GaussJordanStep(M, k), k + 1)
inv(S) ==
    LET M == GaussJordan(Augment(S), 1)
    IN  MkMat([i \in 1..Len(S) |-> [j \in 1..Len(S) |-> M[i][j + Len(S)]]],
              Len(S), Len(S))

\* ------------------------------------------------------------------------
\* Collaborators of the unit (parent estimator, statistics block, parameters)
\* ------------------------------------------------------------------------
\* chi-square thresholds by measurement dimension, rounded to integers
BETA_TABLE == [n \in 0..6 |-> F(<<0, 9, 12, 14, 16, 18, 20>>[n + 1])]

\* configured noise floors (standard deviations)
vision_xy_stddev == F(50)
vision_z_stddev == F(50)

\* retained horizon of the delay buffer, in microseconds
DELAY_MAX == 2 * TimeStep
\* snapshots the delay buffer keeps
HIST_LEN == 3

\* BlockStats: count and running sum
StatsReset == [count |-> 0, sum |-> <<Zero, Zero, Zero>>]
StatsUpdate(s, y) == [count |-> s.count + 1, sum |-> VecAdd(s.sum, y)]
getCount(s) == s.count
getMean(s) == [i \in 1..n_y_vision |-> RDiv(s.sum[i], F(s.count))]

\* ------------------------------------------------------------------------
\* State
\* ------------------------------------------------------------------------
VARIABLES
    pc,                  \* position in the estimator cycle
    timeStamp,           \* _timeStamp: time of the current cycle
    sub_visual_odom,     \* _sub_visual_odom.get(): latest cached sample
    vision_delay,        \* _vision_delay.get(): fixed delay override (us), 0 = auto
    x,                   \* _x: state vector
    P,                   \* _P: state covariance
    tDelay,              \* _tDelay: times of the delay buffer's snapshots, newest first
    xDelay,              \* _xDelay: the snapshots
    sensorTimeout,       \* _sensorTimeout: set of sensors whose timeout bit is set
    sensorFault,         \* _sensorFault: set of sensors whose fault bit is set
    visionStats,         \* _visionStats
    time_last_vision_p,  \* _time_last_vision_p
    vision_eph,          \* _vision_eph
    vision_epv,          \* _vision_epv
    vision_xy_valid,     \* _vision_xy_valid
    vision_z_valid,      \* _vision_z_valid
    pub_innov,           \* _pub_innov.get(): vel_pos_innov / vel_pos_innov_var
    mavlink_log,         \* messages the last handler sent to the log
    time_last_accept,    \* history: time of the last call of visionMeasure that returned OK
    globallocalconverter,   \* global/local converter: [initialized, ref]
    ref,                    \* _ref_lat, _ref_lon, _ref_alt
    global_ref_timestamp,   \* _global_ref_timestamp
    is_global_cov_init,     \* _is_global_cov_init
    map_ref,                \* _map_ref: [init_done, lat, lon]
    time_origin,            \* _time_origin
    altOriginInitialized,   \* _altOriginInitialized
    altOriginGlobal,        \* _altOriginGlobal
    altOrigin               \* _altOrigin

unitVars == <<sensorTimeout, sensorFault, visionStats, time_last_vision_p,
              vision_eph, vision_epv, vision_xy_valid, vision_z_valid>>
\* the origin anchor and the estimator's copy of the global reference
originVars == <<ref, global_ref_timestamp, is_global_cov_init, map_ref, time_origin,
                altOriginInitialized, altOriginGlobal, altOrigin>>
vars == <<pc, timeStamp, sub_visual_odom, vision_delay, x, P, tDelay, xDelay,
          sensorTimeout, sensorFault, visionStats, time_last_vision_p,
          vision_eph, vision_epv, vision_xy_valid, vision_z_valid,
          pub_innov, mavlink_log, time_last_accept,
          globallocalconverter, ref, global_ref_timestamp, is_global_cov_init,
          map_ref, time_origin, altOriginInitialized, altOriginGlobal, altOrigin>>

\* ------------------------------------------------------------------------
\* Inputs: the samples the sensor transport may deliver
\* ------------------------------------------------------------------------
NoCov == <<NaN, NaN, NaN>>
Cov(a, b, c) == <<F(a), F(b), F(c)>>
Body(px, py, pz, cov) == [x |-> px, y |-> py, z |-> pz, pose_covariance |-> cov]

\* [b: the sample, lat: its age when the estimator reads it].  A negative age
\* is a sample stamped ahead of the estimator's clock.
Fresh(b) == [b |-> b, lat |-> 0]
Aged(b, l) == [b |-> b, lat |-> l]

Samples ==
    { Fresh(Body(F(0), F(0), F(0), NoCov)),                   \* on the estimate, no covariance
      Fresh(Body(F(300), F(0), F(100), NoCov)),               \* beta on the threshold at start
      Fresh(Body(F(450), F(0), F(0), NoCov)),                 \* far off: beta over the threshold
      Fresh(Body(F(0), F(0), F(0), Cov(2500, 22500, 2500))),  \* horizontal std 150
      Fresh(Body(NaN, F(0), F(0), NoCov)),                    \* x not finite
      Fresh(Body(F(0), NaN, F(0), NoCov)),                    \* y not finite
      Aged(Body(F(0), F(0), F(0), NoCov), -2 * TimeStep),     \* stamped two cycles ahead
      Aged(Body(F(0), F(0), F(0), NoCov), 3 * TimeStep) }     \* three cycles late

Stamp(b, t) == [timestamp |-> t, x |-> b.x, y |-> b.y, z |-> b.z,
                pose_covariance |-> b.pose_covariance]

ZeroVecX == [i \in 1..n_x |-> Zero]
\* initial covariance: x correlated with vx
InitP ==
    << <<F(5000), F(0), F(0), F(2500)>>,
       <<F(0), F(5000), F(0), F(0)>>,
       <<F(0), F(0), F(2500), F(0)>>,
       <<F(2500), F(0), F(0), F(5000)>> >>

InnovInit == [vel_pos_innov |-> [i \in 1..6 |-> Zero],
              vel_pos_innov_var |-> [i \in 1..6 |-> Zero]]

\* references of the global frame: [lat, lon, alt] in whole degrees / metres
NoRef == [lat |-> F(0), lon |-> F(0), alt |-> F(0)]
RefA == [lat |-> F(47), lon |-> F(8), alt |-> F(400)]
RefB == [lat |-> F(48), lon |-> F(9), alt |-> F(500)]
\* the converter before and after the global frame is known
NoGlobal == [initialized |-> FALSE, ref |-> NoRef]
Global(r) == [initialized |-> TRUE, ref |-> r]
\* the map projection before any unit has set the origin
NoMapRef == [init_done |-> FALSE, lat |-> F(0), lon |-> F(0)]

\* the vision unit and the estimator after construction
InitUnit ==
    /\ pc = "update"
    /\ timeStamp = StartTime
    /\ sub_visual_odom = Stamp(Body(F(0), F(0), F(0), Cov(0, 0, 0)), 0)
    /\ vision_delay = 0
    /\ x = ZeroVecX
    /\ P = InitP
    /\ tDelay = [i \in 1..HIST_LEN |-> 0]
    /\ xDelay = [i \in 1..HIST_LEN |-> ZeroVecX]
    /\ sensorTimeout = AllSensors
    /\ sensorFault = {}
    /\ visionStats = StatsReset
    /\ time_last_vision_p = 0
    /\ vision_eph = Zero
    /\ vision_epv = Zero
    /\ vision_xy_valid = FALSE
    /\ vision_z_valid = FALSE
    /\ pub_innov = InnovInit
    /\ mavlink_log = <<>>
    /\ time_last_accept = 0
    /\ ref = NoRef
    /\ global_ref_timestamp = 0
    /\ is_global_cov_init = FALSE

\* no unit has set an origin yet; the global frame is known from the start
Init ==
    /\ InitUnit
    /\ globallocalconverter = Global(RefA)
    /\ map_ref = NoMapRef
    /\ time_origin = 0
    /\ altOriginInitialized = FALSE
    /\ altOriginGlobal = FALSE
    /\ altOrigin = F(0)

\* ------------------------------------------------------------------------
\* Parent estimator: one cycle
\* ------------------------------------------------------------------------
Cycles == (timeStamp - StartTime) \div TimeStep

\* the delay buffer takes the state of the cycle that ends
HistPush(h, v) == [i \in 1..HIST_LEN |-> IF i = 1 THEN v ELSE h[i - 1]]

\* start of a cycle: the clock advances, the transport may hold a new sample
\* out of `samples`, or (with `keep`) still hold the one it had
BeginCycle(samples, keep, max) ==
    /\ pc = "update"
    /\ Cycles < max
    /\ timeStamp' = timeStamp + TimeStep
    /\ tDelay' = HistPush(tDelay, timeStamp)
    /\ xDelay' = HistPush(xDelay, x)
    /\ \/ keep /\ sub_visual_odom' = sub_visual_odom
       \/ \E s \in samples :
             sub_visual_odom' = Stamp(s.b, USub(timeStamp', s.lat))
    /\ mavlink_log' = <<>>
    /\ pc' = "checkTimeout"
    /\ UNCHANGED <<vision_delay, x, P, pub_innov, time_last_accept>>
    /\ UNCHANGED unitVars
    /\ UNCHANGED originVars

Update ==
    /\ BeginCycle(Samples, TRUE, MaxCycles)
    /\ UNCHANGED globallocalconverter

\* getDelayPeriods(delay, &i_hist): i_hist is the newest snapshot at least
\* `delay` old (the oldest one when there is none); the return value is -1
\* when the delay is beyond the retained horizon
getDelayPeriods(delay) ==
    LET old == {i \in 1..HIST_LEN : USub(timeStamp, tDelay[i]) >= delay}
        i_hist == IF old = {} THEN HIST_LEN
                  ELSE CHOOSE i \in old : \A j \in old : i <= j
    IN  [ret |-> IF delay > DELAY_MAX \/ old = {} THEN -1 ELSE OK,
         i_hist |-> i_hist]

\* ------------------------------------------------------------------------
\* The unit's operations
\* ------------------------------------------------------------------------
\* faulty variants: the branch leaves the last-seen timestamp as it was
LastSeenInvalid_Stale == time_last_vision_p
LastSeenValid_Stale == time_last_vision_p
\* timestamp recorded as last seen, on the invalid and on the valid branch
LastSeenInvalid == sub_visual_odom.timestamp
LastSeenValid == sub_visual_odom.timestamp

\* visionMeasure(y): the return value, what the call leaves in y and in the
\* unit's fields
visionMeasure(y) ==
    LET cov == sub_visual_odom.pose_covariance
        hasCov == IsFinite(cov[1])
        eph == IF hasCov THEN sqrtf(fmaxf(cov[1], cov[2])) ELSE vision_eph
        epv == IF hasCov THEN sqrtf(cov[3]) ELSE vision_epv
        xy_valid == IF hasCov THEN RLe(eph, F(EP_MAX_STD_DEV)) ELSE TRUE
        z_valid == IF hasCov THEN RLe(epv, F(EP_MAX_STD_DEV)) ELSE TRUE
        y_new == <<sub_visual_odom.x, sub_visual_odom.y, sub_visual_odom.z>>
        valid == xy_valid /\ z_valid
        accepted == valid /\ IsFinite(sub_visual_odom.x)
    IN  [ret |-> IF accepted THEN OK ELSE -1,
         y |-> IF accepted THEN y_new ELSE y,
         eph |-> eph,
         epv |-> epv,
         xy_valid |-> xy_valid,
         z_valid |-> z_valid,
         time_last |-> IF valid THEN LastSeenValid ELSE LastSeenInvalid,
         stats |-> IF accepted THEN StatsUpdate(visionStats, y_new) ELSE visionStats]

\* the caller's default-constructed Vector<float, n_y_vision>
NewY == <<Zero, Zero, Zero>>

\* the fields visionMeasure writes, as the caller finds them
MeasureEffects(m) ==
    /\ vision_eph' = m.eph
    /\ vision_epv' = m.epv
    /\ vision_xy_valid' = m.xy_valid
    /\ vision_z_valid' = m.z_valid
    /\ time_last_vision_p' = m.time_last
    /\ time_last_accept' = IF m.ret = OK THEN timeStamp ELSE time_last_accept

\* faulty variants: one sample is enough; three are needed
InitReady_Three(stats) == getCount(stats) > REQ_VISION_INIT_COUNT + 1
InitReady_Ge(stats) == getCount(stats) >= REQ_VISION_INIT_COUNT
\* enough samples to initialize
InitReady(stats) == getCount(stats) > REQ_VISION_INIT_COUNT

\* faulty variant: a failed measurement keeps the accumulator
InitRejectStats_Keep == visionStats
\* the accumulator after a failed measurement in visionInit
InitRejectStats == StatsReset

\* globallocalconverter_getref: the reference is copied out only when the
\* converter is initialized
getref == IF globallocalconverter.initialized THEN globallocalconverter.ref ELSE ref
\* the estimator's reference and its timestamp after a successful init
GlobalRefTimestamp == timeStamp
\* faulty variant: the horizontal origin is set again by every successful init
MapRefInitNeeded_Always == globallocalconverter.initialized
\* the horizontal origin is set when there is none and the global frame is known
MapRefInitNeeded == ~map_ref.init_done /\ globallocalconverter.initialized
\* map_projection_init
map_projection_init(lat, lon) == [init_done |-> TRUE, lat |-> lat, lon |-> lon]
\* the altitude origin is set when there is none
AltOriginInitNeeded == ~altOriginInitialized
AltOriginValue == IF globallocalconverter.initialized THEN getref.alt ELSE F(0)

\* get reference for global position, initialize the origins
OriginInit ==
    /\ ref' = getref
    /\ global_ref_timestamp' = GlobalRefTimestamp
    /\ is_global_cov_init' = globallocalconverter.initialized
    /\ IF MapRefInitNeeded
       THEN /\ map_ref' = map_projection_init(getref.lat, getref.lon)
            /\ time_origin' = timeStamp
       ELSE UNCHANGED <<map_ref, time_origin>>
    /\ IF AltOriginInitNeeded
       THEN /\ altOriginInitialized' = TRUE
            /\ altOriginGlobal' = TRUE
            /\ altOrigin' = AltOriginValue
       ELSE UNCHANGED <<altOriginInitialized, altOriginGlobal, altOrigin>>
\* the messages of a successful init
InitLog == IF MapRefInitNeeded THEN <<"init", "origin">> ELSE <<"init">>

visionInit ==
    /\ pc = "vision"
    /\ SENSOR_VISION \in sensorTimeout
    /\ \E m \in {visionMeasure(NewY)} :
           /\ MeasureEffects(m)
           /\ IF m.ret # OK
              THEN /\ visionStats' = InitRejectStats
                   /\ mavlink_log' = <<>>
                   /\ UNCHANGED <<sensorTimeout, sensorFault>>
                   /\ UNCHANGED originVars
              ELSE /\ visionStats' = m.stats
                   /\ IF InitReady(m.stats)
                      THEN /\ mavlink_log' = InitLog
                           /\ sensorTimeout' = sensorTimeout \ {SENSOR_VISION}
                           /\ sensorFault' = sensorFault \ {SENSOR_VISION}
                           /\ OriginInit
                      ELSE /\ mavlink_log' = <<>>
                           /\ UNCHANGED <<sensorTimeout, sensorFault>>
                           /\ UNCHANGED originVars
    /\ pc' = "update"
    /\ UNCHANGED <<timeStamp, sub_visual_odom, vision_delay, x, P, tDelay, xDelay, pub_innov,
                   globallocalconverter>>

\* measurement matrix: measures position
C == [i \in 1..n_y_vision |-> [j \in 1..n_x |->
        IF (i = Y_vision_x /\ j = X_x) \/ (i = Y_vision_y /\ j = X_y)
           \/ (i = Y_vision_z /\ j = X_z)
        THEN One ELSE Zero]]

\* noise matrix from the cached uncertainty and the configured floors
NoiseR(eph, epv) ==
    LET rxy == IF RGt(eph, vision_xy_stddev) THEN RMul(eph, eph)
               ELSE RMul(vision_xy_stddev, vision_xy_stddev)
        rz  == IF RGt(epv, vision_z_stddev) THEN RMul(epv, epv)
               ELSE RMul(vision_z_stddev, vision_z_stddev)
    IN  [i \in 1..n_y_vision |-> [j \in 1..n_y_vision |->
            IF i # j THEN Zero
            ELSE IF i = Y_vision_z THEN rz ELSE rxy]]

\* measurement delay in microseconds: the unsigned difference, or the override
AutoDelay ==
    LET d == USub(timeStamp, sub_visual_odom.timestamp)
    IN  IF d < 0 THEN 0 ELSE d
EffectiveDelay == IF vision_delay > 0 THEN vision_delay ELSE AutoDelay

\* faulty variant: the return value of getDelayPeriods is ignored
DelayAbort_Never(d) == FALSE
\* the cycle is given up when the delay buffer does not reach that far
DelayAbort(d) == d.ret < 0

\* residual, residual covariance (and inverse) and the fault statistic
Residual(y, eph, epv, i_hist) ==
    LET R   == NoiseR(eph, epv)
        x0  == xDelay[i_hist]
        r   == VecSub(y, MatVec(C, x0))
        S   == MatAdd(MatMul(MatMul(C, P), Transpose(C)), R)
        S_I == inv(S)
    IN  [r |-> r, S |-> S, S_I |-> S_I, beta |-> Dot(r, MatVec(S_I, r))]

\* faulty variant: the unused slots are published as zero
Innov_ZeroVar(c) ==
    [vel_pos_innov |-> MkSeq([i \in 1..6 |-> IF i <= 3 THEN c.r[i] ELSE Zero], 6),
     vel_pos_innov_var |-> MkSeq([i \in 1..6 |-> IF i <= 3 THEN c.S[i][i] ELSE Zero], 6)]
\* publish innovations
Innov(c) ==
    [vel_pos_innov |-> MkSeq([i \in 1..6 |-> IF i <= 3 THEN c.r[i] ELSE Zero], 6),
     vel_pos_innov_var |-> MkSeq([i \in 1..6 |-> IF i <= 3 THEN c.S[i][i] ELSE One], 6)]

\* faulty variant: a message on every cycle over the threshold
FaultLog_Level(gate, fault) == IF gate THEN <<"fault">> ELSE <<>>
\* fault detection: the gate, the fault bits and the messages it leaves
FaultGate(beta) == RGt(beta, BETA_TABLE[n_y_vision])
FaultBits(gate, fault) ==
    IF gate THEN fault \cup {SENSOR_VISION} ELSE fault \ {SENSOR_VISION}
FaultLog(gate, fault) ==
    IF gate
    THEN IF SENSOR_VISION \notin fault THEN <<"fault">> ELSE <<>>
    ELSE IF SENSOR_VISION \in fault THEN <<"ok">> ELSE <<>>

\* faulty variant: the correction is applied whatever the fault bit
CorrectionApplies_Always(fault) == TRUE
\* kalman filter correction if no fault
CorrectionApplies(fault) == SENSOR_VISION \notin fault
KalmanCorrect(c) ==
    LET K  == MatMul(MatMul(P, Transpose(C)), c.S_I)
        dx == MatVec(K, c.r)
    IN  [x |-> VecAdd(x, dx), P |-> MatSub(P, MatMul(MatMul(K, C), P))]

\* faulty variant: a failed measurement empties the accumulator
CorrectRejectStats_Reset == StatsReset
\* the accumulator after a failed measurement in visionCorrect: left alone
CorrectRejectStats == visionStats

visionCorrect ==
    /\ pc = "vision"
    /\ SENSOR_VISION \notin sensorTimeout
    /\ \E m \in {visionMeasure(NewY)} :
       LET d == getDelayPeriods(EffectiveDelay)
       IN  /\ MeasureEffects(m)
           /\ visionStats' = IF m.ret # OK THEN CorrectRejectStats ELSE m.stats
           /\ IF m.ret # OK
              THEN /\ mavlink_log' = <<"invalid">>
                   /\ UNCHANGED <<x, P, sensorFault, pub_innov>>
              ELSE IF DelayAbort(d)
              THEN /\ mavlink_log' = <<>>
                   /\ UNCHANGED <<x, P, sensorFault, pub_innov>>
              ELSE \E c \in {Residual(m.y, m.eph, m.epv, d.i_hist)} :
                   \E gate \in {FaultGate(c.beta)} :
                       /\ pub_innov' = Innov(c)
                       /\ sensorFault' = FaultBits(gate, sensorFault)
                       /\ mavlink_log' = FaultLog(gate, sensorFault)
                       /\ IF CorrectionApplies(FaultBits(gate, sensorFault))
                          THEN \E k \in {KalmanCorrect(c)} : x' = k.x /\ P' = k.P
                          ELSE UNCHANGED <<x, P>>
    /\ pc' = "update"
    /\ UNCHANGED <<timeStamp, sub_visual_odom, vision_delay, tDelay, xDelay, sensorTimeout,
                   globallocalconverter>>
    /\ UNCHANGED originVars

\* faulty variants: the boundary counts as expired; the age is taken from the last
\* accepted measurement
TimeoutExpired_Ge == USub(timeStamp, time_last_vision_p) >= VISION_TIMEOUT
TimeoutExpired_SinceAccept == USub(timeStamp, time_last_accept) > VISION_TIMEOUT
\* the last sample seen is older than the timeout (unsigned difference)
TimeoutExpired == USub(timeStamp, time_last_vision_p) > VISION_TIMEOUT

\* faulty variant: the timeout keeps the accumulator
TimeoutStats_Keep == visionStats
\* the accumulator after the timeout has fired
TimeoutStats == StatsReset

visionCheckTimeout ==
    /\ pc = "checkTimeout"
    /\ IF TimeoutExpired /\ SENSOR_VISION \notin sensorTimeout
       THEN /\ sensorTimeout' = sensorTimeout \cup {SENSOR_VISION}
            /\ visionStats' = TimeoutStats
            /\ mavlink_log' = <<"timeout">>
       ELSE /\ mavlink_log' = <<>>
            /\ UNCHANGED <<sensorTimeout, visionStats>>
    /\ pc' = "vision"
    /\ UNCHANGED <<timeStamp, sub_visual_odom, vision_delay, x, P, tDelay, xDelay,
                   sensorFault, time_last_vision_p, vision_eph, vision_epv,
                   vision_xy_valid, vision_z_valid, pub_innov, time_last_accept,
                   globallocalconverter>>
    /\ UNCHANGED originVars

Next ==
    \/ Update
    \/ visionCheckTimeout
    \/ visionInit
    \/ visionCorrect

Spec == Init /\ [][Next]_vars

\* ------------------------------------------------------------------------
\* The origin anchor: the global frame may become known, or move, between
\* cycles, and another unit may have set the origins before
\* ------------------------------------------------------------------------
OriginCycles == 5
OriginSamples ==
    { Fresh(Body(F(0), F(0), F(0), NoCov)),
      Fresh(Body(NaN, F(0), F(0), NoCov)),
      Aged(Body(F(0), F(0), F(0), NoCov), -2 * TimeStep) }

InitOrigin ==
    /\ InitUnit
    /\ globallocalconverter \in {NoGlobal, Global(RefA)}
    /\ \/ map_ref = NoMapRef /\ time_origin = 0
       \/ map_ref = map_projection_init(RefB.lat, RefB.lon) /\ time_origin = StartTime
    /\ \/ altOriginInitialized = FALSE /\ altOriginGlobal = FALSE /\ altOrigin = F(0)
       \/ altOriginInitialized = TRUE /\ altOriginGlobal = FALSE /\ altOrigin = F(100)

UpdateOrigin ==
    /\ BeginCycle(OriginSamples, TRUE, OriginCycles)
    /\ globallocalconverter' \in
           {globallocalconverter} \cup
           (IF globallocalconverter.initialized THEN {Global(RefB)} ELSE {Global(RefA)})

NextOrigin ==
    \/ UpdateOrigin
    \/ visionCheckTimeout
    \/ visionInit
    \/ visionCorrect

SpecOrigin == InitOrigin /\ [][NextOrigin]_vars


\* ------------------------------------------------------------------------
\* The covariance check: samples on the estimate with every kind of
\* covariance diagonal, over the cycles it takes to initialize and correct
\* ------------------------------------------------------------------------
CovCycles == 3
CovSamples ==
    { Fresh(Body(F(0), F(0), F(0), NoCov)),
      Fresh(Body(F(0), F(0), F(0), Cov(10000, 2500, 10000))),           \* std 100 on both axes
      Fresh(Body(F(0), F(0), F(0), Cov(2500, 2500, 22500))),            \* vertical std 150
      Fresh(Body(F(0), F(0), F(0), Cov(2500, 22500, 2500))),            \* horizontal std 150
      Fresh(Body(F(0), F(0), F(0), <<F(2500), F(2500), NaN>>)),         \* z variance not finite
      Fresh(Body(F(0), F(0), F(0), <<F(22500), NaN, F(2500)>>)),        \* y variance not finite
      Fresh(Body(F(0), F(0), F(0), <<NaN, F(22500), F(22500)>>)) }      \* x variance not finite

UpdateCov ==
    /\ BeginCycle(CovSamples, TRUE, CovCycles)
    /\ UNCHANGED globallocalconverter

NextCov ==
    \/ UpdateCov
    \/ visionCheckTimeout
    \/ visionInit
    \/ visionCorrect

SpecCov == Init /\ [][NextCov]_vars

\* ------------------------------------------------------------------------
\* Recovery: after FeedStart cycles with any of the samples, every cycle
\* brings a fresh sample the unit accepts; cycles keep running
\* ------------------------------------------------------------------------
FeedStart == 4
LiveCycles == FeedStart + 3
FreshAccepted ==
    { Fresh(Body(F(0), F(0), F(0), NoCov)),
      Fresh(Body(F(450), F(0), F(0), NoCov)) }

UpdateLive ==
    /\ IF Cycles < FeedStart
       THEN BeginCycle(Samples, TRUE, LiveCycles)
       ELSE BeginCycle(FreshAccepted, FALSE, LiveCycles)
    /\ UNCHANGED globallocalconverter

NextLive ==
    \/ UpdateLive
    \/ visionCheckTimeout
    \/ visionInit
    \/ visionCorrect

\* the estimator loop keeps running its cycle: a new cycle begins, the timeout
\* check runs and a unit that is not active is given its initialization step;
\* nothing is assumed about the correction step
SpecLive ==
    /\ Init /\ [][NextLive]_vars
    /\ WF_vars(UpdateLive) /\ WF_vars(visionCheckTimeout) /\ WF_vars(visionInit)

\* ------------------------------------------------------------------------
\* Properties
\* ------------------------------------------------------------------------
VisionTimedOut == SENSOR_VISION \in sensorTimeout
VisionFault == SENSOR_VISION \in sensorFault
\* the next step of the unit is visionInit / visionCorrect
InInit == pc = "vision" /\ VisionTimedOut
InCorrect == pc = "vision" /\ ~VisionTimedOut
\* what the pending call of visionMeasure and getDelayPeriods will return
M == visionMeasure(NewY)
D == getDelayPeriods(EffectiveDelay)
ReachesGate == InCorrect /\ M.ret = OK /\ D.ret >= 0
Aborts == InCorrect /\ (M.ret # OK \/ D.ret < 0)
Res == Residual(M.y, M.eph, M.epv, D.i_hist)
Threshold == BETA_TABLE[n_y_vision]
Emitted(msg) == \E i \in 1..Len(mavlink_log) : mavlink_log[i] = msg

\* C1: for every visionCorrect that reaches the fault detector, X and P are
\* modified if and only if beta <= threshold; with the fault bit set at the
\* end X and P are unchanged; with beta equal to the threshold the correction
\* is applied and the fault bit is clear.
C1_UpdateIffBetaWithinThreshold ==
    [][ReachesGate =>
        /\ ((x' # x \/ P' # P) <=> RLe(Res.beta, Threshold))
        /\ (VisionFault' => x' = x /\ P' = P)
        /\ (Res.beta = Threshold =>
               /\ ~VisionFault'
               /\ x' = KalmanCorrect(Res).x
               /\ P' = KalmanCorrect(Res).P)]_vars

\* C2: over non-aborted visionCorrect calls the fault bit follows the gate, a
\* fault message is sent exactly when the bit goes from clear to set, a
\* recovery message exactly when it goes from set to clear, and nothing when
\* the bit keeps its value.
C2_FaultNotificationsEdgeTriggered ==
    [][ReachesGate =>
        /\ (VisionFault' <=> RGt(Res.beta, Threshold))
        /\ (Emitted("fault")' <=> (~VisionFault /\ VisionFault'))
        /\ (Emitted("ok")' <=> (VisionFault /\ ~VisionFault'))
        /\ (VisionFault' = VisionFault => mavlink_log' = <<>>)
        /\ Len(mavlink_log') <= 1]_vars
\* a recovery message has been sent (after an onset)
C2_Witness == pc = "update" /\ mavlink_log = <<"ok">> /\ ~VisionFault

C4_TimeoutClearedOnlyByInit ==
    [][/\ (VisionTimedOut /\ ~VisionTimedOut') =>
              /\ InInit
              /\ M.ret = OK
              /\ getCount(visionStats') > REQ_VISION_INIT_COUNT
              /\ Emitted("init")'
       /\ (VisionTimedOut /\ pc = "vision") =>
              /\ x' = x /\ P' = P /\ pub_innov' = pub_innov
              /\ sensorFault' \subseteq sensorFault
              /\ mavlink_log' \in {<<>>, <<"init">>, <<"init", "origin">>}]_vars
\* a unit that was active and timed out has been initialized again
C4_Witness ==
    /\ pc = "update"
    /\ Emitted("init")
    /\ ~VisionTimedOut
    /\ P # InitP

C6_HorizonAbortLeavesState ==
    [][(InCorrect /\ M.ret = OK /\ D.ret < 0) =>
        /\ x' = x /\ P' = P
        /\ sensorFault' = sensorFault
        /\ pub_innov' = pub_innov
        /\ mavlink_log' = <<>>]_vars
\* an accepted sample older than the horizon has just been through visionCorrect
C6_Witness ==
    /\ pc = "update"
    /\ ~VisionTimedOut
    /\ mavlink_log = <<>>
    /\ time_last_accept = timeStamp
    /\ vision_delay = 0
    /\ USub(timeStamp, sub_visual_odom.timestamp) > DELAY_MAX

\* C7 (as stated): an aborted visionCorrect leaves every field of the unit as
\* it was: X, P, fault bit, timeout bit, accumulator, cached uncertainty and
\* last-seen timestamp.
C7_AbortHasNoSideEffects ==
    [][Aborts =>
        UNCHANGED <<x, P, sensorFault, sensorTimeout, visionStats, vision_eph,
                    vision_epv, time_last_vision_p>>]_vars
\* C7 (amended): an aborted visionCorrect leaves X, P, the fault bit, the
\* timeout bit and the innovations as they were; it sets the last-seen
\* timestamp to the sample's, recomputes the cached uncertainty when the
\* sample carries an x variance, and leaves the accumulator alone when the
\* measurement was rejected (adds the sample when it was accepted).
C7_AbortKeepsFilterState ==
    [][Aborts =>
        /\ UNCHANGED <<x, P, sensorFault, sensorTimeout, pub_innov>>
        /\ time_last_vision_p' = sub_visual_odom.timestamp
        /\ IF IsFinite(sub_visual_odom.pose_covariance[1])
           THEN /\ vision_eph' = sqrtf(fmaxf(sub_visual_odom.pose_covariance[1],
                                             sub_visual_odom.pose_covariance[2]))
                /\ vision_epv' = sqrtf(sub_visual_odom.pose_covariance[3])
           ELSE UNCHANGED <<vision_eph, vision_epv>>
        /\ IF M.ret # OK
           THEN visionStats' = visionStats
           ELSE getCount(visionStats') = getCount(visionStats) + 1]_vars
\* a rejected sample has changed the cached uncertainty and the last-seen
\* timestamp of an active unit
C7_Witness ==
    /\ pc = "update"
    /\ ~VisionTimedOut
    /\ mavlink_log = <<"invalid">>
    /\ vision_eph = F(150)
    /\ time_last_vision_p = timeStamp

\* C8 (as stated): once no measurement has been accepted for more than
\* VISION_TIMEOUT, visionCheckTimeout sets the timeout bit of an active unit.
C8_TimeoutSinceLastAccepted ==
    [][(pc = "checkTimeout" /\ ~VisionTimedOut
        /\ timeStamp - time_last_accept > VISION_TIMEOUT) => VisionTimedOut']_vars
\* C8 (amended): the timeout is measured from the timestamp of the last sample
\* read, accepted or rejected: visionCheckTimeout sets the timeout bit of an
\* active unit exactly when the unsigned age of the last-seen timestamp is over
\* VISION_TIMEOUT, however long ago a measurement was last accepted.
C8_TimeoutSinceLastSeen ==
    [][(pc = "checkTimeout" /\ ~VisionTimedOut) =>
        (VisionTimedOut' <=> USub(timeStamp, time_last_vision_p) > VISION_TIMEOUT)]_vars
\* an active unit has passed visionCheckTimeout more than VISION_TIMEOUT after
\* its last accepted measurement, its last sample being rejected and fresh
C8_Witness ==
    /\ pc = "vision"
    /\ ~VisionTimedOut
    /\ time_last_accept > 0
    /\ timeStamp - time_last_accept > VISION_TIMEOUT
    /\ ~vision_xy_valid
    /\ USub(timeStamp, time_last_vision_p) <= VISION_TIMEOUT

\* C9: every call of visionMeasure sets the last-seen timestamp to the
\* timestamp of the sample read; a sample over the uncertainty ceiling or with
\* a non-finite x is rejected, and a rejected sample neither writes the
\* measurement vector nor adds to the accumulator.
Probe == <<F(7), F(7), F(7)>>
OverCeiling ==
    /\ IsFinite(sub_visual_odom.pose_covariance[1])
    /\ ~(/\ RLe(sqrtf(fmaxf(sub_visual_odom.pose_covariance[1],
                            sub_visual_odom.pose_covariance[2])), F(EP_MAX_STD_DEV))
         /\ RLe(sqrtf(sub_visual_odom.pose_covariance[3]), F(EP_MAX_STD_DEV)))
C9_MeasureRecordsLastSeen ==
    [][pc = "vision" =>
        /\ time_last_vision_p' = sub_visual_odom.timestamp
        /\ ((OverCeiling \/ ~IsFinite(sub_visual_odom.x)) => M.ret # OK)
        /\ (M.ret # OK =>
               /\ visionMeasure(Probe).y = Probe
               /\ visionStats' \in {visionStats, StatsReset})]_vars
\* a sample with a non-finite x has been read and rejected by an active unit:
\* it is the last seen, not the last accepted
C9_Witness ==
    /\ pc = "update"
    /\ ~VisionTimedOut
    /\ ~IsFinite(sub_visual_odom.x)
    /\ mavlink_log = <<"invalid">>
    /\ time_last_vision_p = sub_visual_odom.timestamp
    /\ time_last_accept < time_last_vision_p
    /\ getCount(visionStats) >= 2

\* C10: X and P change only in a visionCorrect that runs with the timeout bit
\* clear, passes the fault gate and ends with the fault bit clear, and then by
\* the gain-weighted update; visionInit, visionCheckTimeout and every step
\* taken with the timeout bit set leave them alone.
C10_StateChangedOnlyByCorrection ==
    [][(x' # x \/ P' # P) =>
        /\ ReachesGate
        /\ ~VisionTimedOut'
        /\ ~VisionFault'
        /\ \E k \in {KalmanCorrect(Res)} : x' = k.x /\ P' = k.P]_vars
\* a correction has been applied
C10_Witness == pc = "update" /\ ~VisionTimedOut /\ ~VisionFault /\ P # InitP /\ x # ZeroVecX


\* C11 (as stated): once the horizontal origin exists and the altitude origin
\* is initialized, a visionInit leaves the anchor as it was: the reference
\* latitude, longitude and altitude, the timestamps of the reference and of
\* the origin, the map reference and the altitude origin.
C11_OriginAnchorWriteOnce ==
    [][(InInit /\ map_ref.init_done /\ altOriginInitialized) =>
        UNCHANGED <<ref, global_ref_timestamp, map_ref, time_origin, altOrigin>>]_vars
\* C11 (amended): only a successful visionInit touches the anchor.  It sets
\* the horizontal origin (map reference, origin time) only when none exists
\* and the global frame is known, and the altitude origin only when none
\* exists (the global altitude when the global frame is known, else 0); an
\* existing horizontal or altitude origin is left as it was.  It refreshes the
\* reference timestamp every time, and the reference latitude, longitude and
\* altitude whenever the global frame is known.
C11_OriginsWriteOnceReferenceRefreshed ==
    [][IF InInit /\ ~VisionTimedOut'
       THEN /\ global_ref_timestamp' = timeStamp
            /\ is_global_cov_init' = globallocalconverter.initialized
            /\ ref' = IF globallocalconverter.initialized
                      THEN globallocalconverter.ref ELSE ref
            /\ IF ~map_ref.init_done /\ globallocalconverter.initialized
               THEN /\ map_ref' = [init_done |-> TRUE,
                                   lat |-> globallocalconverter.ref.lat,
                                   lon |-> globallocalconverter.ref.lon]
                    /\ time_origin' = timeStamp
               ELSE UNCHANGED <<map_ref, time_origin>>
            /\ IF ~altOriginInitialized
               THEN /\ altOriginInitialized'
                    /\ altOrigin' = IF globallocalconverter.initialized
                                    THEN globallocalconverter.ref.alt ELSE F(0)
               ELSE UNCHANGED <<altOriginInitialized, altOriginGlobal, altOrigin>>
       ELSE UNCHANGED originVars]_vars
\* the unit has set both origins, timed out and initialized again after the
\* global frame moved: the origins are the old ones, the reference is new
C11_Witness ==
    /\ pc = "update"
    /\ ~VisionTimedOut
    /\ map_ref = map_projection_init(RefA.lat, RefA.lon)
    /\ altOrigin = RefA.alt
    /\ ref = RefB
    /\ 0 < time_origin
    /\ time_origin < global_ref_timestamp

\* C12: a sample that passes the uncertainty check and has a non-finite x, y
\* or z makes visionMeasure fail: no measurement vector is written and the
\* accumulator is not fed.
C12_NonFinitePositionRejected ==
    [][(/\ pc = "vision"
        /\ M.xy_valid /\ M.z_valid
        /\ \/ ~IsFinite(sub_visual_odom.x)
           \/ ~IsFinite(sub_visual_odom.y)
           \/ ~IsFinite(sub_visual_odom.z)) =>
        /\ M.ret # OK
        /\ visionMeasure(Probe).y = Probe
        /\ visionStats' \in {visionStats, StatsReset}]_vars

\* C13: a sample whose x, y or z variance is not finite is valid on both
\* axes; a sample with an all-finite covariance is valid on an axis exactly
\* when its standard deviation on that axis is at most EP_MAX_STD_DEV.
C13_CovarianceValidity ==
    [][pc = "vision" =>
        LET cov == sub_visual_odom.pose_covariance
        IN  IF IsFinite(cov[1]) /\ IsFinite(cov[2]) /\ IsFinite(cov[3])
            THEN /\ vision_xy_valid' <=>
                        RLe(sqrtf(fmaxf(cov[1], cov[2])), F(EP_MAX_STD_DEV))
                 /\ vision_z_valid' <=> RLe(sqrtf(cov[3]), F(EP_MAX_STD_DEV))
            ELSE vision_xy_valid' /\ vision_z_valid']_vars

\* C14: the delay visionCorrect hands to the delay buffer is the override
\* when it is positive and otherwise max(0, current time - sample timestamp);
\* a sample stamped later than the current time has delay 0 and its
\* correction is not given up: the innovations against the newest snapshot
\* are published.
MaxZeroDelay ==
    IF timeStamp - sub_visual_odom.timestamp > 0
    THEN timeStamp - sub_visual_odom.timestamp ELSE 0
C14_DelayClampedAtZero ==
    [][(InCorrect /\ M.ret = OK) =>
        /\ EffectiveDelay = IF vision_delay > 0 THEN vision_delay ELSE MaxZeroDelay
        /\ (vision_delay = 0 /\ sub_visual_odom.timestamp > timeStamp) =>
              pub_innov' = Innov(Residual(M.y, M.eph, M.epv,
                                          getDelayPeriods(0).i_hist))]_vars

\* C15 (as stated): in every phase a rejected measurement, like a timeout,
\* empties the accumulator, and an accepted one adds one to the count, so
\* that the count is the length of the current run of accepted measurements.
C15_AccumulatorResetOnEveryRejection ==
    [][/\ (pc = "vision" /\ M.ret # OK) => getCount(visionStats') = 0
       /\ (pc = "vision" /\ M.ret = OK) =>
              getCount(visionStats') = getCount(visionStats) + 1
       /\ (pc = "checkTimeout" /\ ~VisionTimedOut /\ VisionTimedOut') =>
              getCount(visionStats') = 0]_vars
\* C15 (amended): the accumulator is emptied when a measurement is rejected in
\* visionInit and when the timeout fires.  In visionCorrect a rejected
\* measurement leaves the accumulator as it was; every accepted measurement,
\* in either phase, adds one to the count.  Nothing else changes it.
C15_AccumulatorResetInInitOnly ==
    [][/\ (InInit /\ M.ret # OK) => visionStats' = StatsReset
       /\ (InCorrect /\ M.ret # OK) => visionStats' = visionStats
       /\ (pc = "vision" /\ M.ret = OK) =>
              getCount(visionStats') = getCount(visionStats) + 1
       /\ pc = "checkTimeout" =>
              IF ~VisionTimedOut /\ VisionTimedOut'
              THEN visionStats' = StatsReset
              ELSE visionStats' = visionStats
       /\ pc = "update" => visionStats' = visionStats]_vars
\* an active unit has rejected a sample and kept the three it had accumulated
C15_Witness ==
    /\ pc = "update"
    /\ ~VisionTimedOut
    /\ mavlink_log = <<"invalid">>
    /\ time_last_accept < timeStamp
    /\ getCount(visionStats) = 3

\* the cached sample is older than the timeout and has been read before
Stale == timeStamp - sub_visual_odom.timestamp > VISION_TIMEOUT
AlreadySeen ==
    /\ sub_visual_odom.timestamp > 0
    /\ sub_visual_odom.timestamp = time_last_vision_p

\* C16 (as stated): a timed-out unit that is handed the same stale sample
\* again stays timed out (and so sends no further timeout message).
C16_StaleSampleNeverReinitializes ==
    [][(InInit /\ Stale /\ AlreadySeen) => VisionTimedOut']_vars
\* C16 (amended): visionInit takes a stale sample like any other: its age
\* plays no part in the acceptance, the first accepted one is counted and the
\* second one initializes the unit; and visionCheckTimeout, finding an active
\* unit whose last-seen sample is stale, fires again and sends another
\* timeout message.
C16_StaleSampleReinitializes ==
    [][/\ (InInit /\ Stale /\ AlreadySeen) =>
              /\ M.ret = OK <=> (~OverCeiling /\ IsFinite(sub_visual_odom.x))
              /\ (M.ret = OK /\ getCount(visionStats) = 0) =>
                     VisionTimedOut' /\ getCount(visionStats') = 1
              /\ (M.ret = OK /\ getCount(visionStats) >= 1) =>
                     ~VisionTimedOut' /\ Emitted("init")'
       /\ (pc = "checkTimeout" /\ ~VisionTimedOut /\ Stale /\ AlreadySeen) =>
              VisionTimedOut' /\ mavlink_log' = <<"timeout">>]_vars
\* the timeout has fired again on a unit that had timed out and initialized
\* a second time in the cycle before, on a sample with the timestamp of the
\* one it still holds, stale already then
C16_Witness ==
    /\ pc = "vision"
    /\ mavlink_log = <<"timeout">>
    /\ AlreadySeen
    /\ timeStamp - TimeStep - sub_visual_odom.timestamp > VISION_TIMEOUT
    /\ global_ref_timestamp = timeStamp - TimeStep
    /\ 0 < time_origin
    /\ time_origin < global_ref_timestamp

\* C17: once every cycle delivers a fresh accepted sample, a unit that is
\* timed out (never initialized, timed out, or faulted and timed out)
\* eventually is active with the timeout bit and the fault bit clear; it is so
\* at the latest after two of those cycles, and the step that makes it active
\* sends the init message exactly once.
C17_ReinitLiveness ==
    /\ (pc = "update" /\ Cycles = FeedStart /\ VisionTimedOut)
          ~> (~VisionTimedOut /\ ~VisionFault)
    /\ []((pc = "update" /\ Cycles >= FeedStart + 2) => ~VisionTimedOut)
    /\ [][(Cycles > FeedStart /\ VisionTimedOut /\ ~VisionTimedOut') =>
            /\ ~VisionFault'
            /\ Cardinality({i \in 1..Len(mavlink_log') : mavlink_log'[i] = "init"}) = 1]_vars
\* a unit that had been active and timed out is active again at the end of
\* the second cycle with a fresh accepted sample
C17_Witness ==
    /\ pc = "update"
    /\ Cycles = FeedStart + 2
    /\ Emitted("init")
    /\ ~VisionTimedOut /\ ~VisionFault
    /\ global_ref_timestamp = timeStamp
    /\ 0 < time_origin
    /\ time_origin < global_ref_timestamp

\* C18: every visionCorrect that passes the measurement and the delay lookup
\* publishes the residual y - C x0 in innovation slots 0..2 and the diagonal of
\* S = C P C^T + R in the variance slots 0..2, with 0 and 1 in slots 3..5,
\* whether or not the fault gate trips; a visionCorrect that returns early
\* leaves the published innovations as they were.
C18_InnovationsPublished ==
    [][InCorrect =>
        IF ReachesGate
        THEN /\ \A i \in 1..3 :
                  /\ pub_innov'.vel_pos_innov[i] = RSub(M.y[i], xDelay[D.i_hist][i])
                  /\ pub_innov'.vel_pos_innov_var[i] =
                         RAdd(P[i][i], NoiseR(M.eph, M.epv)[i][i])
             /\ \A i \in 4..6 :
                  /\ pub_innov'.vel_pos_innov[i] = Zero
                  /\ pub_innov'.vel_pos_innov_var[i] = One
        ELSE pub_innov' = pub_innov]_vars
\* the fault gate has just tripped and the residual of that measurement is out
C18_Witness ==
    /\ pc = "update"
    /\ VisionFault
    /\ mavlink_log = <<"fault">>
    /\ pub_innov.vel_pos_innov[Y_vision_x] # Zero
    /\ pub_innov.vel_pos_innov_var[4] = One

\* C19: in every state the cycle reaches, a unit whose timeout bit is set has
\* at most REQ_VISION_INIT_COUNT samples in its accumulator; the count exceeds
\* that only while the unit is initialized.
C19_TimedOutCountAtMostOne ==
    VisionTimedOut => getCount(visionStats) <= REQ_VISION_INIT_COUNT
\* a unit that has been corrected has timed out and holds one sample again
C19_Witness ==
    /\ VisionTimedOut
    /\ getCount(visionStats) = REQ_VISION_INIT_COUNT
    /\ P # InitP
    /\ pc = "update"

\* the noise the sample now on the transport calls for on axis i: the square of
\* the larger of its own standard deviation and the floor; the floor alone when
\* it carries no finite covariance
SampleNoise(i) ==
    LET cov   == sub_visual_odom.pose_covariance
        floor == IF i = Y_vision_z THEN vision_z_stddev ELSE vision_xy_stddev
        std   == IF i = Y_vision_z THEN sqrtf(cov[3]) ELSE sqrtf(fmaxf(cov[1], cov[2]))
    IN  IF IsFinite(cov[1]) /\ RGt(std, floor) THEN RMul(std, std)
        ELSE RMul(floor, floor)

\* C20: the measurement noise R of every visionCorrect that reaches the
\* residual covariance comes from the sample of that cycle: per axis the
\* square of the larger of its standard deviation and the floor, and the floor
\* when the sample has no finite covariance, whatever uncertainty an earlier
\* sample left cached.
C20_NoiseFromCurrentSample ==
    [][ReachesGate =>
        \A i \in 1..n_y_vision :
            pub_innov'.vel_pos_innov_var[i] = RAdd(P[i][i], SampleNoise(i))]_vars

====
